---- MODULE Spec2Model ----
(***************************************************************************)
(* Model of msmania/updater: the version parser and comparator             *)
(* (ParseVersion, versionStruct.Compare), the self-upgrade sequence        *)
(* (getLatestRelease, downloadFile, replaceSelf, maybeUpgrade) and main.   *)
(*                                                                         *)
(* A Go string is a sequence of one-character strings.  A Go int is a      *)
(* two's complement integer of IntBits bits (64 in the build; the model    *)
(* scales the width down and keeps the wrap-around).  A *Prerelease is a   *)
(* sequence of length 0 (nil) or 1.                                        *)
(***************************************************************************)
EXTENDS Integers, Sequences, FiniteSets, TLC

VARIABLES
  pc,            \* position of main / maybeUpgrade
  showVersion,   \* flag --version
  skipUpgrade,   \* flag --skip-upgrade
  version,       \* the build-time version string (var version)
  exePath,       \* what os.Executable() resolves to: <<dir, base>>
  fs,            \* the file system: path -> content
  fs0,           \* the file system when the process started
  remoteTag,     \* getLatestRelease's tag
  assetURL,      \* getLatestRelease's download URL
  remoteVersion, \* ParseVersion(remoteTag)
  localVersion,  \* ParseVersion(version)
  gateCmp,       \* remoteVersion.Compare(localVersion): [cmp, err]
  tmpPath,       \* the staging path
  upgraded,      \* maybeUpgrade's first result
  err,           \* maybeUpgrade's second result ("nil" or the error)
  ret,           \* the return statement maybeUpgrade left by
  exitCode,      \* the process's exit status (-1 while it runs)
  serverStarted, \* main reached http.ListenAndServe
  nQuery,        \* calls of getLatestRelease so far
  nDownload,     \* calls of downloadFile so far
  nRename,       \* calls of os.Rename so far
  dlURL,         \* the URL downloadFile gave to http.Get ("" before)
  newer,         \* isNewer(version, remoteTag) of cmd/main ("unset" before)
  tpc,           \* position of the test helper verifyOk
  ver1,          \* verifyOk's first argument
  ver2,          \* verifyOk's second argument
  parsed1,       \* ParseVersion(ver1)
  parsed2,       \* ParseVersion(ver2)
  cmp12,         \* parsed1.Compare(parsed2)
  cmp21          \* parsed2.Compare(parsed1)

mainVars == <<pc, showVersion, skipUpgrade, version, exePath, fs, fs0,
              remoteTag, assetURL, remoteVersion, localVersion, gateCmp,
              tmpPath, upgraded, err, ret, exitCode, serverStarted,
              nQuery, nDownload, nRename, dlURL, newer>>
testVars == <<tpc, ver1, ver2, parsed1, parsed2, cmp12, cmp21>>
vars == <<mainVars, testVars>>

(***************************************************************************)
(* Bounds                                                                  *)
(***************************************************************************)
\* width of a Go int in the model
IntBits == 5
\* largest core number the enumerated well-formed inputs use
MaxCore == 1

MaxInt == 2 ^ (IntBits - 1) - 1
MinInt == -(2 ^ (IntBits - 1))
\* Go's wrap-around of an int result
Wrap(x) == ((x - MinInt) % (2 ^ IntBits)) + MinInt

(***************************************************************************)
(* Strings                                                                 *)
(***************************************************************************)
DigitChars == <<"0", "1", "2", "3", "4", "5", "6", "7", "8", "9">>
IsDigit(c) == \E d \in 1..10 : DigitChars[d] = c
DigitVal(c) == (CHOOSE d \in 1..10 : DigitChars[d] = c) - 1

RECURSIVE Utoa(_)
\* decimal text of n >= 0
Utoa(n) == IF n < 10 THEN <<DigitChars[n + 1]>>
           ELSE Utoa(n \div 10) \o <<DigitChars[(n % 10) + 1]>>
\* decimal text of an integer
Itoa(n) == IF n < 0 THEN <<"-">> \o Utoa(-n) ELSE Utoa(n)

\* strings.CutPrefix
CutPrefix(s, prefix) ==
  IF Len(s) >= Len(prefix) /\ SubSeq(s, 1, Len(prefix)) = prefix
  THEN [after |-> SubSeq(s, Len(prefix) + 1, Len(s)), found |-> TRUE]
  ELSE [after |-> s, found |-> FALSE]

\* strings.TrimPrefix
TrimPrefix(s, prefix) == CutPrefix(s, prefix).after

\* index of the first sep in s, 0 when there is none
IndexOf(s, sep) ==
  IF \E i \in 1..Len(s) : s[i] = sep
  THEN CHOOSE i \in 1..Len(s) : s[i] = sep /\ \A j \in 1..(i - 1) : s[j] # sep
  ELSE 0

RECURSIVE SplitN(_, _, _)
\* strings.SplitN(s, sep, n) for a one-character sep and n >= 1
SplitN(s, sep, n) ==
  IF n = 1 \/ IndexOf(s, sep) = 0 THEN <<s>>
  ELSE <<SubSeq(s, 1, IndexOf(s, sep) - 1)>>
       \o SplitN(SubSeq(s, IndexOf(s, sep) + 1, Len(s)), sep, n - 1)

RECURSIVE DecVal(_)
\* value of a run of decimal digits
DecVal(s) == IF s = <<>> THEN 0
             ELSE 10 * DecVal(SubSeq(s, 1, Len(s) - 1)) + DigitVal(s[Len(s)])

\* strconv.Atoi: optional sign, then one or more digits, within the int range
Atoi(s) ==
  LET signed == s # <<>> /\ s[1] \in {"+", "-"}
      body == IF signed THEN Tail(s) ELSE s
      n == IF signed /\ s[1] = "-" THEN -DecVal(body) ELSE DecVal(body)
  IN IF body = <<>> \/ \E i \in 1..Len(body) : ~IsDigit(body[i])
     THEN [n |-> 0, err |-> TRUE]
     ELSE IF n < MinInt \/ n > MaxInt
     THEN [n |-> IF n < MinInt THEN MinInt ELSE MaxInt, err |-> TRUE]
     ELSE [n |-> n, err |-> FALSE]

(***************************************************************************)
(* Versions                                                                *)
(***************************************************************************)
PrereleaseAlpha == 0
PrereleaseBeta == 1
PrereleaseRC == 2

Alpha == <<"a", "l", "p", "h", "a">>
Beta == <<"b", "e", "t", "a">>
RC == <<"r", "c">>

\* mutant of prereleaseTypeMap: a fourth literal, r, a prefix of rc
prereleaseTypeMap_overlap ==
  [k \in {Alpha, Beta, RC, <<"r">>} |->
     IF k = Alpha THEN PrereleaseAlpha
     ELSE IF k = Beta THEN PrereleaseBeta ELSE PrereleaseRC]

\* the map from channel prefix to PreReleaseType
prereleaseTypeMap ==
  [k \in {Alpha, Beta, RC} |->
     IF k = Alpha THEN PrereleaseAlpha
     ELSE IF k = Beta THEN PrereleaseBeta ELSE PrereleaseRC]

\* the orders a range over prereleaseTypeMap can visit its keys in
MapOrders ==
  {o \in [1..Cardinality(DOMAIN prereleaseTypeMap) -> DOMAIN prereleaseTypeMap] :
     \A i, j \in DOMAIN o : i # j => o[i] # o[j]}

\* Prerelease.Compare
PrereleaseCompare(v, other) ==
  IF v.t # other.t THEN Wrap(v.t - other.t)
  ELSE Wrap(v.version - other.version)

RECURSIVE parsePreReleaseFrom(_, _, _)
\* the loop of parsePreRelease from the i-th key of the iteration order
parsePreReleaseFrom(v, order, i) ==
  IF i > Len(order) THEN <<>>
  ELSE LET cut == CutPrefix(v, order[i])
       IN IF cut.found
          THEN IF Atoi(cut.after).err THEN <<>>
               ELSE <<[t |-> prereleaseTypeMap[order[i]],
                       version |-> Atoi(cut.after).n]>>
          ELSE parsePreReleaseFrom(v, order, i + 1)

\* parsePreRelease under one iteration order of the map
parsePreRelease(v, order) == parsePreReleaseFrom(v, order, 1)

RECURSIVE parseCore(_, _, _)
\* the loop over the core fields of ParseVersion, from field i
parseCore(vs, core, i) ==
  IF i > Len(core) THEN [vs EXCEPT !.Parsed = TRUE]
  ELSE IF Atoi(core[i]).err THEN vs
  ELSE IF i > 3 THEN [vs EXCEPT !.Panic = TRUE]
  ELSE parseCore([vs EXCEPT !.Numbers[i] = Atoi(core[i]).n], core, i + 1)

\* mutant of newVersionStruct: Original taken after the leading v was cut
newVersionStruct_afterCut(v) ==
  [Original |-> TrimPrefix(v, <<"v">>), Parsed |-> FALSE,
   Numbers |-> <<0, 0, 0>>, Pre |-> <<>>, Panic |-> FALSE]

\* the value ParseVersion builds first (Panic: an index out of range)
newVersionStruct(v) ==
  [Original |-> v, Parsed |-> FALSE, Numbers |-> <<0, 0, 0>>, Pre |-> <<>>,
   Panic |-> FALSE]

\* ParseVersion under one iteration order of the prerelease map
ParseVersion(v, order) ==
  LET vs == newVersionStruct(v)
      cut == CutPrefix(v, <<"v">>)
      parts == SplitN(cut.after, "-", 2)
      pre == parsePreRelease(parts[2], order)
  IN IF ~cut.found THEN vs
     ELSE IF Len(parts) = 2 /\ pre = <<>> THEN vs
     ELSE parseCore(IF Len(parts) = 2 THEN [vs EXCEPT !.Pre = pre] ELSE vs,
                    SplitN(parts[1], ".", 3), 1)

RECURSIVE compareNumbers(_, _, _)
\* the loop over the three core numbers of versionStruct.Compare
compareNumbers(v, other, i) ==
  IF i > 3 THEN 0
  ELSE IF v.Numbers[i] > other.Numbers[i] THEN 1
  ELSE IF v.Numbers[i] < other.Numbers[i] THEN -1
  ELSE compareNumbers(v, other, i + 1)

\* mutant of Compare: the error only when neither side is parsed
Compare_bothUnparsed(v, other) ==
  IF ~v.Parsed /\ ~other.Parsed THEN [cmp |-> 0, err |-> TRUE]
  ELSE IF compareNumbers(v, other, 1) # 0
  THEN [cmp |-> compareNumbers(v, other, 1), err |-> FALSE]
  ELSE IF v.Pre = <<>> /\ other.Pre = <<>> THEN [cmp |-> 0, err |-> FALSE]
  ELSE IF v.Pre = <<>> THEN [cmp |-> 1, err |-> FALSE]
  ELSE IF other.Pre = <<>> THEN [cmp |-> -1, err |-> FALSE]
  ELSE [cmp |-> PrereleaseCompare(v.Pre[1], other.Pre[1]), err |-> FALSE]

\* versionStruct.Compare
Compare(v, other) ==
  IF ~v.Parsed \/ ~other.Parsed THEN [cmp |-> 0, err |-> TRUE]
  ELSE IF compareNumbers(v, other, 1) # 0
  THEN [cmp |-> compareNumbers(v, other, 1), err |-> FALSE]
  ELSE IF v.Pre = <<>> /\ other.Pre = <<>> THEN [cmp |-> 0, err |-> FALSE]
  ELSE IF v.Pre = <<>> THEN [cmp |-> 1, err |-> FALSE]
  ELSE IF other.Pre = <<>> THEN [cmp |-> -1, err |-> FALSE]
  ELSE [cmp |-> PrereleaseCompare(v.Pre[1], other.Pre[1]), err |-> FALSE]

(***************************************************************************)
(* Enumerated inputs                                                       *)
(***************************************************************************)
V == <<"v">>
Dot == <<".">>
Dash == <<"-">>

\* well-formed core fields
CoreFields == {Utoa(n) : n \in 0..MaxCore}
\* cores of one, two and three well-formed fields
WellFormedCores ==
  CoreFields
  \cup {a \o Dot \o b : a \in CoreFields, b \in CoreFields}
  \cup {a \o Dot \o b \o Dot \o c :
          a \in CoreFields, b \in CoreFields, c \in CoreFields}
\* cores at and beyond the edges of the grammar
EdgeCores ==
  {<<>>, <<"+", "1">>, <<"0", "1">>, <<"1", "x">>, <<"1", ".">>, <<".", "1">>,
   <<"0", ".", "0", ".", "0", ".", "1">>, <<"1", ".", "+", "1">>,
   <<"1", ".", "1", ".", "1", ".">>, Utoa(MaxInt), Utoa(MaxInt + 1),
   <<"1", ".", "0", ".">> \o Utoa(MaxInt + 1)}
\* what may follow the channel
Ordinals ==
  {<<>>, <<"0">>, <<"1">>, <<"+", "1">>, <<"-", "1">>, <<"1", "x">>,
   Itoa(MaxInt), Itoa(MinInt), Utoa(MaxInt + 1)}
\* what may follow the dash
Channels == {Alpha, Beta, RC, <<"r", "e", "l">>}
Tails ==
  {<<>>, Dash, <<"-", "1">>, <<"-", "r", "c", "1", "-", "1">>}
  \cup {Dash \o ch \o o : ch \in Channels, o \in Ordinals}
\* version strings: with the leading v, and a few without it
Inputs ==
  {V \o c \o t : c \in WellFormedCores \cup EdgeCores, t \in Tails}
  \cup {<<>>, <<"d", "e", "v">>, <<"V", "1">>, <<"1", ".", "0", ".", "0">>,
        <<"1", "-", "r", "c", "1">>, <<" ", "v", "1">>}
\* the second argument of a comparison
Ver2Samples ==
  {V \o c \o t :
     c \in {<<"1">>, <<"0", ".", "1">>, <<"1", ".", "0", ".", "0">>},
     t \in {<<>>, <<"-", "r", "c", "0">>, <<"-", "r", "c", "1">>,
            <<"-", "b", "e", "t", "a", "1">>, Dash \o RC \o Itoa(MinInt),
            Dash \o RC \o Itoa(MaxInt)}}
  \cup {<<"d", "e", "v">>, <<"v", "1", "-", "r", "e", "l", "0">>}

(***************************************************************************)
(* Values of variables not yet assigned                                    *)
(***************************************************************************)
NoVersion == newVersionStruct(<<>>)
NoCmp == [cmp |-> 0, err |-> FALSE]
NoPath == <<"", "">>

(***************************************************************************)
(* The test helper verifyOk of Test_isNewer_Release: parse both strings,   *)
(* compare them both ways.                                                 *)
(***************************************************************************)
mainOff ==
  /\ pc = "off" /\ showVersion = FALSE /\ skipUpgrade = FALSE
  /\ version = <<>> /\ exePath = NoPath /\ fs = <<>> /\ fs0 = <<>>
  /\ remoteTag = <<>> /\ assetURL = "" /\ remoteVersion = NoVersion
  /\ localVersion = NoVersion /\ gateCmp = NoCmp /\ tmpPath = NoPath
  /\ upgraded = FALSE /\ err = "nil" /\ ret = "none" /\ exitCode = -1
  /\ serverStarted = FALSE /\ nQuery = 0 /\ nDownload = 0 /\ nRename = 0
  /\ dlURL = "" /\ newer = "unset"

TestInit ==
  /\ mainOff
  /\ tpc = "parse1"
  /\ ver1 \in Inputs
  /\ ver2 \in Ver2Samples
  /\ parsed1 = NoVersion /\ parsed2 = NoVersion
  /\ cmp12 = NoCmp /\ cmp21 = NoCmp

\* parsed1 := ParseVersion(ver1)
verifyOk_parse1 ==
  /\ tpc = "parse1"
  /\ \E order \in MapOrders :
       LET vs == ParseVersion(ver1, order)
       IN /\ parsed1' = vs
          /\ tpc' = IF vs.Panic THEN "panic" ELSE "parse2"
  /\ UNCHANGED <<mainVars, ver1, ver2, parsed2, cmp12, cmp21>>

\* parsed2 := ParseVersion(ver2)
verifyOk_parse2 ==
  /\ tpc = "parse2"
  /\ \E order \in MapOrders :
       LET vs == ParseVersion(ver2, order)
       IN /\ parsed2' = vs
          /\ tpc' = IF vs.Panic THEN "panic" ELSE "compare"
  /\ UNCHANGED <<mainVars, ver1, ver2, parsed1, cmp12, cmp21>>

\* parsed1.Compare(parsed2) and parsed2.Compare(parsed1)
verifyOk_compare ==
  /\ tpc = "compare"
  /\ cmp12' = Compare(parsed1, parsed2)
  /\ cmp21' = Compare(parsed2, parsed1)
  /\ tpc' = "done"
  /\ UNCHANGED <<mainVars, ver1, ver2, parsed1, parsed2>>

TestNext == verifyOk_parse1 \/ verifyOk_parse2 \/ verifyOk_compare

TestSpec == TestInit /\ [][TestNext]_vars

(***************************************************************************)
(* The process: main and maybeUpgrade                                      *)
(***************************************************************************)
\* directories the executable may be installed in
Dirs == {"/opt/updater", "/usr/local/bin"}
\* file names the executable may run under
ExeNames == {"updater", "updater.new"}
Paths == Dirs \X ExeNames

\* filepath.Dir and filepath.Join on <<dir, base>> paths
Dir(path) == path[1]
Join(dir, name) == <<dir, name>>

\* the staging path of maybeUpgrade
stagingPath(exe) == Join(Dir(exe), "updater.new")

\* fmt.Sprintf("updater-%s-%s", runtime.GOOS, runtime.GOARCH)
assetName == "updater-linux-amd64"

\* build-time values of var version
LocalVersions ==
  {<<"d", "e", "v">>,
   <<"v", "1", ".", "0", ".", "0">>,
   <<"v", "1">>,
   <<"v", "1", ".", "0", ".", "0", "-", "r", "c", "1">>,
   <<"v", "0", ".", "9">>,
   <<"1", ".", "0", ".", "0">>}

\* tag_name values of the latest release
RemoteTags ==
  {<<"v", "1", ".", "1", ".", "0">>,
   <<"v", "1", ".", "1", ".", "0", "-", "r", "c", "1">>,
   <<"v", "0", ".", "9", ".", "0">>,
   <<"v", "1", ".", "0", ".", "0">>,
   <<"v", "1", ".", "0", ".", "0", "-", "r", "c", "2">>,
   <<"v", "1", ".", "0", ".", "0", "-", "b", "e", "t", "a", "1">>,
   <<"v", "2">>,
   <<"2", ".", "0", ".", "0">>,
   <<"v", "1", ".", "0", ".", "0", ".", "1">>,
   <<"v", "2", "-", "r", "e", "l", "0">>,
   <<"l", "a", "t", "e", "s", "t">>,
   <<>>}

\* the assets a release may carry
ThisAsset == [Name |-> assetName, BrowserDownloadURL |-> "https://dl/this"]
OtherAsset ==
  [Name |-> "updater-darwin-arm64", BrowserDownloadURL |-> "https://dl/other"]
Releases ==
  [TagName : RemoteTags,
   Assets : {<<>>, <<OtherAsset>>, <<ThisAsset>>, <<OtherAsset, ThisAsset>>}]
NoRelease == [TagName |-> <<>>, Assets |-> <<>>]

\* what the release query can come back with
Responses ==
  {[kind |-> k, rel |-> NoRelease] : k \in {"transport", "status", "decode"}}
  \cup {[kind |-> "ok", rel |-> r] : r \in Releases}

\* getLatestRelease, given the response of the release index
getLatestRelease(resp, name) ==
  IF resp.kind # "ok"
  THEN [tag |-> <<>>, url |-> "", err |-> resp.kind]
  ELSE IF \E i \in 1..Len(resp.rel.Assets) : resp.rel.Assets[i].Name = name
  THEN LET i == CHOOSE k \in 1..Len(resp.rel.Assets) :
                  /\ resp.rel.Assets[k].Name = name
                  /\ \A j \in 1..(k - 1) : resp.rel.Assets[j].Name # name
       IN [tag |-> resp.rel.TagName,
           url |-> resp.rel.Assets[i].BrowserDownloadURL,
           err |-> "nil"]
  ELSE [tag |-> resp.rel.TagName, url |-> "", err |-> "asset not found"]

\* mutant of noNewerRelease: the prerelease test is missing
noNewerRelease_anyChannel(cmp, remote) == cmp.err \/ cmp.cmp <= 0

\* the condition of maybeUpgrade's "No newer release available" branch
noNewerRelease(cmp, remote) ==
  cmp.err \/ cmp.cmp <= 0 \/ remote.Pre # <<>>

\* the complete response body of a download URL
Body(url) ==
  IF url = ThisAsset.BrowserDownloadURL THEN "new" ELSE "foreign"

\* os.Rename
Rename(f, oldpath, newpath) ==
  IF oldpath = newpath THEN f
  ELSE [f EXCEPT ![newpath] = f[oldpath], ![oldpath] = "absent"]

\* the file systems a process can start in: the old binary at the
\* executable's path, perhaps a staging file left by an earlier run
startFileSystems(exe) ==
  {f \in [Paths -> {"absent", "old", "stale"}] :
     /\ f[exe] = "old"
     /\ \A q \in Paths :
          q # exe => IF q = stagingPath(exe) THEN f[q] \in {"absent", "stale"}
                     ELSE f[q] = "absent"}

testOff ==
  /\ tpc = "off" /\ ver1 = <<>> /\ ver2 = <<>>
  /\ parsed1 = NoVersion /\ parsed2 = NoVersion
  /\ cmp12 = NoCmp /\ cmp21 = NoCmp

Init ==
  /\ testOff
  /\ pc = "main"
  /\ showVersion \in BOOLEAN
  /\ skipUpgrade \in BOOLEAN
  /\ version \in LocalVersions
  /\ exePath \in Paths
  /\ fs \in startFileSystems(exePath)
  /\ fs0 = fs
  /\ remoteTag = <<>> /\ assetURL = ""
  /\ remoteVersion = NoVersion /\ localVersion = NoVersion
  /\ gateCmp = NoCmp /\ tmpPath = NoPath
  /\ upgraded = FALSE /\ err = "nil" /\ ret = "none"
  /\ exitCode = -1 /\ serverStarted = FALSE
  /\ nQuery = 0 /\ nDownload = 0 /\ nRename = 0
  /\ dlURL = "" /\ newer = "unset"

settings == <<showVersion, skipUpgrade, version, exePath, fs0>>
gateVars == <<remoteVersion, localVersion, gateCmp>>
counters == <<nQuery, nDownload, nRename>>

\* a return statement of maybeUpgrade
Return(u, e, site) ==
  /\ upgraded' = u
  /\ err' = e
  /\ ret' = site
  /\ pc' = "returned"

\* main: --version prints the version and returns
main_showVersion ==
  /\ pc = "main"
  /\ showVersion
  /\ pc' = "exited"
  /\ exitCode' = 0
  /\ UNCHANGED <<settings, dlURL, newer, fs, remoteTag, assetURL, gateVars, tmpPath,
                 upgraded, err, ret, serverStarted, counters, testVars>>

\* main: call maybeUpgrade(*skipUpgrade)
main_callMaybeUpgrade ==
  /\ pc = "main"
  /\ ~showVersion
  /\ pc' = "maybeUpgrade"
  /\ UNCHANGED <<settings, dlURL, newer, fs, remoteTag, assetURL, gateVars, tmpPath,
                 upgraded, err, ret, exitCode, serverStarted, counters,
                 testVars>>

\* mutant of skipped: the flag is not looked at
skipped_never(skip) == FALSE

\* maybeUpgrade's test of its skip parameter
skipped(skip) == skip

\* maybeUpgrade: if skip { return false, nil }
maybeUpgrade_skip ==
  /\ pc = "maybeUpgrade"
  /\ skipped(skipUpgrade)
  /\ Return(FALSE, "nil", "skip")
  /\ UNCHANGED <<settings, dlURL, newer, fs, remoteTag, assetURL, gateVars, tmpPath,
                 exitCode, serverStarted, counters, testVars>>

\* maybeUpgrade: the release query
maybeUpgrade_query ==
  /\ pc = "maybeUpgrade"
  /\ ~skipped(skipUpgrade)
  /\ nQuery' = nQuery + 1
  /\ \E resp \in Responses :
       LET r == getLatestRelease(resp, assetName)
       IN /\ remoteTag' = r.tag
          /\ assetURL' = r.url
          /\ IF r.err # "nil"
             THEN Return(FALSE, "cannot query latest release", "query")
             ELSE /\ pc' = "gate"
                  /\ UNCHANGED <<upgraded, err, ret>>
  /\ UNCHANGED <<settings, dlURL, newer, fs, gateVars, tmpPath, exitCode, serverStarted,
                 nDownload, nRename, testVars>>

\* maybeUpgrade: parse both versions, compare, decide
maybeUpgrade_gate ==
  /\ pc = "gate"
  /\ \E o1 \in MapOrders, o2 \in MapOrders :
       \E remote \in {ParseVersion(remoteTag, o1)},
          local \in {ParseVersion(version, o2)} :
       \E cmp \in {Compare(remote, local)} :
          /\ remoteVersion' = remote
          /\ localVersion' = local
          /\ gateCmp' = cmp
          /\ IF remote.Panic \/ local.Panic
             THEN /\ pc' = "exited"
                  /\ exitCode' = 2
                  /\ UNCHANGED <<upgraded, err, ret>>
             ELSE IF noNewerRelease(cmp, remote)
             THEN /\ Return(FALSE, "nil", "uptodate")
                  /\ UNCHANGED exitCode
             ELSE /\ pc' = "Downloading"
                  /\ UNCHANGED <<upgraded, err, ret, exitCode>>
  /\ UNCHANGED <<settings, dlURL, newer, fs, remoteTag, assetURL, tmpPath, serverStarted,
                 counters, testVars>>

\* maybeUpgrade: os.Executable(), then the staging path
maybeUpgrade_executable ==
  /\ pc = "Downloading"
  /\ \E ok \in BOOLEAN :
       IF ok
       THEN /\ tmpPath' = stagingPath(exePath)
            /\ pc' = "open"
            /\ UNCHANGED <<upgraded, err, ret>>
       ELSE /\ Return(FALSE, "executable", "exe")
            /\ UNCHANGED tmpPath
  /\ UNCHANGED <<settings, dlURL, newer, fs, remoteTag, assetURL, gateVars, exitCode,
                 serverStarted, counters, testVars>>

\* downloadFile: os.OpenFile(dst, O_CREATE|O_WRONLY|O_TRUNC)
downloadFile_open ==
  /\ pc = "open"
  /\ nDownload' = nDownload + 1
  /\ \E ok \in BOOLEAN :
       IF ok
       THEN /\ fs' = [fs EXCEPT ![tmpPath] = "empty"]
            /\ pc' = "get"
            /\ UNCHANGED <<upgraded, err, ret>>
       ELSE /\ Return(FALSE, "download failed", "download")
            /\ UNCHANGED fs
  /\ UNCHANGED <<settings, dlURL, newer, remoteTag, assetURL, gateVars, tmpPath, exitCode,
                 serverStarted, nQuery, nRename, testVars>>

\* downloadFile: http.Get(url) and the status test
downloadFile_get ==
  /\ pc = "get"
  /\ dlURL' = assetURL
  /\ \E outcome \in {"transport", "status", "ok"} :
       IF outcome = "ok"
       THEN /\ pc' = "copy"
            /\ UNCHANGED <<upgraded, err, ret>>
       ELSE Return(FALSE, "download failed", "download")
  /\ UNCHANGED <<settings, newer, fs, remoteTag, assetURL, gateVars, tmpPath,
                 exitCode, serverStarted, counters, testVars>>

\* mutant of downloadFile_copy: io.Copy's error is dropped
downloadFile_copy_errorDropped ==
  /\ pc = "copy"
  /\ \E outcome \in {"chunk", "error", "eof"} :
       /\ fs' = [fs EXCEPT ![tmpPath] =
                   IF outcome = "chunk" THEN "partial"
                   ELSE IF outcome = "eof" THEN Body(dlURL) ELSE @]
       /\ pc' = IF outcome = "chunk" THEN "copy" ELSE "replaceSelf"
       /\ UNCHANGED <<upgraded, err, ret>>
  /\ UNCHANGED <<settings, dlURL, newer, remoteTag, assetURL, gateVars,
                 tmpPath, exitCode, serverStarted, counters, testVars>>

\* downloadFile: io.Copy writes a chunk, fails, or reaches the end of the body
downloadFile_copy ==
  /\ pc = "copy"
  /\ \E outcome \in {"chunk", "error", "eof"} :
       /\ fs' = [fs EXCEPT ![tmpPath] =
                   IF outcome = "chunk" THEN "partial"
                   ELSE IF outcome = "eof" THEN Body(dlURL) ELSE @]
       /\ IF outcome = "error"
          THEN Return(FALSE, "download failed", "download")
          ELSE /\ pc' = IF outcome = "eof" THEN "replaceSelf" ELSE "copy"
               /\ UNCHANGED <<upgraded, err, ret>>
  /\ UNCHANGED <<settings, dlURL, newer, remoteTag, assetURL, gateVars, tmpPath, exitCode,
                 serverStarted, counters, testVars>>

\* replaceSelf: os.Executable(), os.Rename(tmpPath, exePath)
replaceSelf ==
  /\ pc = "replaceSelf"
  /\ \E outcome \in {"no executable", "rename failed", "ok"} :
       /\ nRename' = IF outcome = "no executable" THEN nRename ELSE nRename + 1
       /\ fs' = IF outcome = "ok" THEN Rename(fs, tmpPath, exePath) ELSE fs
       /\ IF outcome = "ok"
          THEN Return(TRUE, "nil", "ok")
          ELSE Return(FALSE, "replace failed", "replace")
  /\ UNCHANGED <<settings, dlURL, newer, remoteTag, assetURL, gateVars, tmpPath, exitCode,
                 serverStarted, nQuery, nDownload, testVars>>

\* mutant of restartRequested: the process also exits when the upgrade failed
restartRequested_onError(u, e) == e # "nil" \/ u

\* main's test on maybeUpgrade's results: err != nil logs, else upgraded exits
restartRequested(u, e) == e = "nil" /\ u

\* main: log the error and go on, or os.Exit(1) after an upgrade
main_afterUpgrade ==
  /\ pc = "returned"
  /\ IF restartRequested(upgraded, err)
     THEN pc' = "exited" /\ exitCode' = 1
     ELSE pc' = "serve" /\ UNCHANGED exitCode
  /\ UNCHANGED <<settings, dlURL, newer, fs, remoteTag, assetURL, gateVars, tmpPath,
                 upgraded, err, ret, serverStarted, counters, testVars>>

\* main: register the handlers and call http.ListenAndServe
main_serve ==
  /\ pc = "serve"
  /\ serverStarted' = TRUE
  /\ pc' = "serving"
  /\ UNCHANGED <<settings, dlURL, newer, fs, remoteTag, assetURL, gateVars, tmpPath,
                 upgraded, err, ret, exitCode, counters, testVars>>

\* main: http.ListenAndServe returned an error, log.Fatalf
main_serverFailed ==
  /\ pc = "serving"
  /\ pc' = "exited"
  /\ exitCode' = 1
  /\ UNCHANGED <<settings, dlURL, newer, fs, remoteTag, assetURL, gateVars, tmpPath,
                 upgraded, err, ret, serverStarted, counters, testVars>>

Next ==
  \/ main_showVersion
  \/ main_callMaybeUpgrade
  \/ maybeUpgrade_skip
  \/ maybeUpgrade_query
  \/ maybeUpgrade_gate
  \/ maybeUpgrade_executable
  \/ downloadFile_open
  \/ downloadFile_get
  \/ downloadFile_copy
  \/ replaceSelf
  \/ main_afterUpgrade
  \/ main_serve
  \/ main_serverFailed

Spec == Init /\ [][Next]_vars

\* the steps of main itself, and maybeUpgrade's return on skip
mainStep ==
  \/ main_showVersion
  \/ main_callMaybeUpgrade
  \/ maybeUpgrade_skip
  \/ main_afterUpgrade
  \/ main_serve

\* main takes its next step.  No fairness is assumed of an upgrade in
\* progress (its steps wait on the network and the file system, without a
\* timeout), nor of a server that started (it may go on serving).
FairSpec == Spec /\ WF_vars(mainStep)

(***************************************************************************)
(* The upgrade gate of cmd/main: isNewer, next to the ParseVersion/Compare *)
(* gate, on the same pair of strings                                       *)
(***************************************************************************)
RECURSIVE Split(_, _)
\* strings.Split(s, sep) for a one-character sep
Split(s, sep) ==
  IF IndexOf(s, sep) = 0 THEN <<s>>
  ELSE <<SubSeq(s, 1, IndexOf(s, sep) - 1)>>
       \o Split(SubSeq(s, IndexOf(s, sep) + 1, Len(s)), sep)

\* the characters of the enumerated inputs, in byte order
ByteOrder ==
  <<" ", "+", "-", ".", "0", "1", "2", "3", "4", "5", "6", "7", "8", "9",
    "V", "a", "b", "c", "d", "e", "h", "l", "p", "r", "s", "t", "v", "x">>
ByteRank(c) == CHOOSE k \in 1..Len(ByteOrder) : ByteOrder[k] = c

\* Go's a > b on strings: bytewise lexicographic
StringGreater(a, b) ==
  \/ \E i \in 1..Len(a) :
       /\ i <= Len(b)
       /\ \A j \in 1..(i - 1) : a[j] = b[j]
       /\ ByteRank(a[i]) > ByteRank(b[i])
  \/ /\ Len(a) > Len(b)
     /\ \A j \in 1..Len(b) : a[j] = b[j]

\* the core fields padded with "0" to three
padCore(core) ==
  IF Len(core) = 1 THEN core \o <<<<"0">>, <<"0">>>>
  ELSE IF Len(core) = 2 THEN core \o <<<<"0">>>>
  ELSE core

RECURSIVE isNewerCore(_, _, _)
\* the loop of isNewer over the three core fields: "newer", "older", or
\* "equal" when all three agree
isNewerCore(lCore, rCore, i) ==
  IF i > 3 THEN "equal"
  ELSE IF Atoi(lCore[i]).err THEN "older"
  ELSE IF Atoi(rCore[i]).err THEN "older"
  ELSE IF Atoi(rCore[i]).n > Atoi(lCore[i]).n THEN "newer"
  ELSE IF Atoi(rCore[i]).n < Atoi(lCore[i]).n THEN "older"
  ELSE isNewerCore(lCore, rCore, i + 1)

\* isNewer of cmd/main/main.go
isNewer(local, remote) ==
  LET lParts == SplitN(TrimPrefix(local, <<"v">>), "-", 2)
      rParts == SplitN(TrimPrefix(remote, <<"v">>), "-", 2)
      core == isNewerCore(padCore(Split(lParts[1], ".")),
                          padCore(Split(rParts[1], ".")), 1)
      lPre == IF Len(lParts) > 1 THEN lParts[2] ELSE <<>>
      rPre == IF Len(rParts) > 1 THEN rParts[2] ELSE <<>>
  IN IF core # "equal" THEN core = "newer"
     ELSE IF rPre = <<>> /\ lPre # <<>> THEN TRUE
     ELSE IF rPre # <<>> /\ lPre = <<>> THEN FALSE
     ELSE IF rPre # <<>> /\ lPre # <<>> THEN StringGreater(rPre, lPre)
     ELSE FALSE

\* the local versions and remote tags both gates are run on
GateLocals == LocalVersions \cup Ver2Samples
GateRemotes ==
  RemoteTags \cup Ver2Samples
  \cup {<<"v", "1", "-", "r", "c", "9">>, <<"v", "1", "-", "r", "c", "1", "0">>,
        <<"1", ".", "1">>, <<"v", "1", ".", "x">>, <<"v", "2", ".", "x">>}

GateInit ==
  /\ testOff
  /\ pc = "isNewer"
  /\ version \in GateLocals
  /\ remoteTag \in GateRemotes
  /\ showVersion = FALSE /\ skipUpgrade = FALSE
  /\ exePath = NoPath /\ fs = <<>> /\ fs0 = <<>> /\ assetURL = ""
  /\ remoteVersion = NoVersion /\ localVersion = NoVersion
  /\ gateCmp = NoCmp /\ tmpPath = NoPath
  /\ upgraded = FALSE /\ err = "nil" /\ ret = "none"
  /\ exitCode = -1 /\ serverStarted = FALSE
  /\ nQuery = 0 /\ nDownload = 0 /\ nRename = 0
  /\ dlURL = "" /\ newer = "unset"

\* cmd/main's maybeUpgrade: if !isNewer(version, remoteTag)
gate_isNewer ==
  /\ pc = "isNewer"
  /\ newer' = isNewer(version, remoteTag)
  /\ pc' = "compare"
  /\ UNCHANGED <<settings, dlURL, fs, remoteTag, assetURL, gateVars, tmpPath,
                 upgraded, err, ret, exitCode, serverStarted, counters,
                 testVars>>

\* the other maybeUpgrade: ParseVersion twice, then Compare
gate_compare ==
  /\ pc = "compare"
  /\ \E o1 \in MapOrders, o2 \in MapOrders :
       \E remote \in {ParseVersion(remoteTag, o1)},
          local \in {ParseVersion(version, o2)} :
          /\ remoteVersion' = remote
          /\ localVersion' = local
          /\ gateCmp' = Compare(remote, local)
  /\ pc' = "decided"
  /\ UNCHANGED <<settings, dlURL, newer, fs, remoteTag, assetURL, tmpPath,
                 upgraded, err, ret, exitCode, serverStarted, counters,
                 testVars>>

GateNext == gate_isNewer \/ gate_compare

GateSpec == GateInit /\ [][GateNext]_vars

(***************************************************************************)
(* Reference definitions the claims are stated against                     *)
(***************************************************************************)
\* a non-empty run of decimal digits
IsDigits(t) == t # <<>> /\ \A i \in 1..Len(t) : IsDigit(t[i])

\* <major>[.<minor>[.<patch>]]
IsCoreText(t) ==
  \/ IsDigits(t)
  \/ \E i \in 1..Len(t) :
       /\ t[i] = "."
       /\ IsDigits(SubSeq(t, 1, i - 1))
       /\ IsDigits(SubSeq(t, i + 1, Len(t)))
  \/ \E i \in 1..Len(t) : \E j \in (i + 1)..Len(t) :
       /\ t[i] = "." /\ t[j] = "."
       /\ IsDigits(SubSeq(t, 1, i - 1))
       /\ IsDigits(SubSeq(t, i + 1, j - 1))
       /\ IsDigits(SubSeq(t, j + 1, Len(t)))

\* <channel><ordinal>, channel one of alpha, beta, rc
IsPrereleaseText(t) ==
  \E ch \in {Alpha, Beta, RC} :
    /\ Len(t) > Len(ch)
    /\ SubSeq(t, 1, Len(ch)) = ch
    /\ IsDigits(SubSeq(t, Len(ch) + 1, Len(t)))

\* v<major>[.<minor>[.<patch>]][-<channel><ordinal>]
MatchesGrammar(s) ==
  /\ s # <<>>
  /\ s[1] = "v"
  /\ \/ IsCoreText(Tail(s))
     \/ \E i \in 2..Len(s) :
          /\ s[i] = "-"
          /\ IsCoreText(SubSeq(s, 2, i - 1))
          /\ IsPrereleaseText(SubSeq(s, i + 1, Len(s)))

Sign(x) == IF x > 0 THEN 1 ELSE IF x < 0 THEN -1 ELSE 0

\* the order of the core triples
CoreOrder(a, b) ==
  IF a.Numbers = b.Numbers THEN 0
  ELSE LET i == CHOOSE k \in 1..3 :
                  /\ a.Numbers[k] # b.Numbers[k]
                  /\ \A j \in 1..(k - 1) : a.Numbers[j] = b.Numbers[j]
       IN IF a.Numbers[i] > b.Numbers[i] THEN 1 ELSE -1

\* the reference order of two parsed versions, over the integers
ReferenceOrder(a, b) ==
  IF CoreOrder(a, b) # 0 THEN CoreOrder(a, b)
  ELSE IF a.Pre = <<>> /\ b.Pre = <<>> THEN 0
  ELSE IF a.Pre = <<>> THEN 1
  ELSE IF b.Pre = <<>> THEN -1
  ELSE IF a.Pre[1].t # b.Pre[1].t THEN Sign(a.Pre[1].t - b.Pre[1].t)
  ELSE Sign(a.Pre[1].version - b.Pre[1].version)

(***************************************************************************)
(* Claims about the parser and the comparator (TestSpec)                   *)
(***************************************************************************)
\* C5: for all strings a and b that ParseVersion accepts, Compare(a, b) and
\* Compare(b, a) return without error and have strictly opposite signs
\* unless both are zero, and Compare(a, a) is zero.
C5_Antisymmetric ==
  (tpc = "done" /\ parsed1.Parsed /\ parsed2.Parsed) =>
    /\ ~cmp12.err /\ ~cmp21.err
    /\ Sign(cmp12.cmp) = -Sign(cmp21.cmp)
    /\ (ver1 = ver2 => cmp12.cmp = 0)

\* C6: ParseVersion returns Parsed=true if and only if the string matches
\* v<major>[.<minor>[.<patch>]][-<channel><ordinal>] with every number a
\* non-empty run of decimal digits and the channel one of alpha, beta, rc.
C6_ParsedIffGrammar ==
  (tpc \in {"parse2", "compare", "done"}) =>
    (parsed1.Parsed <=> MatchesGrammar(ver1))

\* C7: for all parsed versions a and b, the sign of Compare(a, b) is the sign
\* of the reference order (core triple, then release over prerelease, then
\* channel, then ordinal numerically).
C7_CompareIsReferenceOrder ==
  (tpc = "done" /\ parsed1.Parsed /\ parsed2.Parsed) =>
    /\ Sign(cmp12.cmp) = ReferenceOrder(parsed1, parsed2)
    /\ Sign(cmp21.cmp) = ReferenceOrder(parsed2, parsed1)

\* C10: ParseVersion is total and keeps its input: whatever the string, it
\* returns a value (no panic) whose Original is the string itself.
C10_OriginalPreserved ==
  /\ (tpc \in {"parse2", "compare", "done"}) =>
       (~parsed1.Panic /\ parsed1.Original = ver1)
  /\ (tpc \in {"compare", "done"}) =>
       (~parsed2.Panic /\ parsed2.Original = ver2)
  /\ tpc # "panic"

\* C10 witness: a rejected and an accepted string, both parsed, both kept
C10_Witness ==
  /\ tpc = "done"
  /\ ~parsed1.Parsed /\ parsed1.Original = ver1 /\ Len(ver1) > 1
  /\ ver1[1] = "v"
  /\ parsed2.Parsed /\ parsed2.Original = ver2 /\ parsed2.Pre # <<>>

(***************************************************************************)
(* Claims about the upgrade run (Spec, FairSpec)                           *)
(***************************************************************************)
\* the spec's states of the orchestrator, read off the position and the
\* return statement
Skipped == ret = "skip"
UpToDate == ret = "uptodate"
Failed == ret \in {"query", "exe", "download", "replace"}
RestartRequested == ret = "ok"
\* the run went past the decision gate into the download sequence
Proceeded ==
  \/ pc \in {"Downloading", "open", "get", "copy", "replaceSelf"}
  \/ ret \in {"exe", "download", "replace", "ok"}

\* C1: after a successful release query the run proceeds to Downloading if
\* and only if both versions parse, Compare(remote, local) is strictly
\* greater and the remote version has no prerelease; otherwise it ends in
\* UpToDate (upgraded=false, no error) with no download and no rename.  A
\* remote prerelease is never installed, an unparseable local version never
\* upgrades.
C1_GateDecision ==
  /\ (Proceeded \/ UpToDate) =>
       /\ remoteVersion.Original = remoteTag
       /\ localVersion.Original = version
       /\ Proceeded <=>
            /\ remoteVersion.Parsed /\ localVersion.Parsed
            /\ ~gateCmp.err /\ gateCmp.cmp > 0
            /\ remoteVersion.Pre = <<>>
       /\ Proceeded => ReferenceOrder(remoteVersion, localVersion) = 1
       /\ Proceeded <=> ~UpToDate
  /\ UpToDate =>
       /\ ~upgraded /\ err = "nil"
       /\ nDownload = 0 /\ nRename = 0 /\ fs = fs0

\* C1 witness: a remote prerelease with the higher core triple ended UpToDate
C1_Witness ==
  /\ UpToDate
  /\ remoteVersion.Parsed /\ localVersion.Parsed
  /\ remoteVersion.Pre # <<>>
  /\ CoreOrder(remoteVersion, localVersion) = 1
  /\ pc = "serving"

\* C2: in every state of a run the live executable's path holds the complete
\* old binary or the complete new binary.
C2_LiveBinaryIntact ==
  pc # "off" => fs[exePath] \in {"old", "new"}

\* C3: whenever a step of the upgrade fails, maybeUpgrade returns
\* upgraded=false with an error, the content at the live executable's path is
\* unchanged, and main does not exit before serving.
C3_FailureLeavesBinary ==
  Failed =>
    /\ ~upgraded /\ err # "nil"
    /\ fs[exePath] = fs0[exePath]
    /\ pc = "exited" => serverStarted

\* C4: started without --version, the process terminates before serving
\* (with a non-zero status) if and only if the rename succeeded; after
\* RestartRequested the server is never started, and after Skipped, UpToDate
\* and Failed it eventually is.
C4_ExitIffReplaced ==
  /\ []((~showVersion /\ pc = "exited" /\ ~serverStarted) =>
          (RestartRequested /\ upgraded /\ exitCode # 0))
  /\ [](RestartRequested => (~serverStarted /\ pc \in {"returned", "exited"}))
  /\ RestartRequested ~> (pc = "exited" /\ exitCode # 0 /\ ~serverStarted)
  /\ (Skipped \/ UpToDate \/ Failed) ~> serverStarted

\* C4 witness: the rename succeeded and the process exited without serving
C4_Witness ==
  /\ RestartRequested
  /\ pc = "exited" /\ exitCode = 1 /\ ~serverStarted
  /\ nRename = 1
  /\ fs[exePath] = "new"

\* C8: Compare returns an error if and only if one of the two versions has
\* Parsed=false, and an erroring comparison leads to UpToDate, never to
\* Downloading.
C8_CompareErrorMeansUpToDate ==
  (Proceeded \/ UpToDate) =>
    /\ gateCmp.err <=> (~remoteVersion.Parsed \/ ~localVersion.Parsed)
    /\ gateCmp.err => (UpToDate /\ ~Proceeded /\ nDownload = 0)

\* C8 witness: the remote tag parsed, the local version did not, UpToDate
C8_Witness ==
  /\ UpToDate
  /\ gateCmp.err
  /\ remoteVersion.Parsed /\ remoteVersion.Pre = <<>>
  /\ ~localVersion.Parsed

\* C9: with --skip-upgrade, maybeUpgrade returns at once with upgraded=false
\* and no error: no release query, no file created, truncated or renamed,
\* and the process goes on to serve.
C9_SkipDoesNothing ==
  /\ []((skipUpgrade /\ ~showVersion) =>
          /\ nQuery = 0 /\ nDownload = 0 /\ nRename = 0
          /\ fs = fs0
          /\ pc \in {"main", "maybeUpgrade", "returned", "serve", "serving",
                     "exited"}
          /\ pc \in {"returned", "serve", "serving", "exited"} =>
               (Skipped /\ ~upgraded /\ err = "nil")
          /\ pc = "exited" => serverStarted)
  /\ (skipUpgrade /\ ~showVersion) ~> serverStarted

\* C9 witness: a skipped run serves, nothing queried, the files as they were
C9_Witness ==
  /\ skipUpgrade /\ Skipped
  /\ pc = "serving" /\ serverStarted
  /\ nQuery = 0
  /\ fs = fs0 /\ fs[stagingPath(exePath)] = "stale"

\* C11: within one run the steps happen in the order query, gate, download,
\* rename, each at most once and each only after the one before succeeded;
\* the rename is attempted only after downloadFile wrote the complete body
\* of the asset URL the same query returned; no step is retried.
C11_FixedOrderOnce ==
  [][/\ nQuery' # nQuery =>
          (pc = "maybeUpgrade" /\ nQuery = 0 /\ nDownload = 0 /\ nRename = 0
           /\ nQuery' = 1)
     /\ pc' = "maybeUpgrade" => pc \in {"main", "maybeUpgrade"}
     /\ (pc = "gate" /\ pc' # "gate") =>
          (nQuery = 1 /\ nDownload = 0 /\ nRename = 0 /\ ret = "none")
     /\ (pc' = "gate" /\ pc # "gate") => (pc = "maybeUpgrade" /\ nQuery' = 1)
     /\ nDownload' # nDownload =>
          (nQuery = 1 /\ nDownload = 0 /\ nRename = 0 /\ nDownload' = 1
           /\ ~gateCmp.err /\ gateCmp.cmp > 0 /\ remoteVersion.Pre = <<>>
           /\ remoteVersion.Original = remoteTag)
     /\ dlURL' # dlURL =>
          (nDownload = 1 /\ dlURL = "" /\ dlURL' = assetURL
           /\ assetURL = ThisAsset.BrowserDownloadURL)
     /\ nRename' # nRename =>
          (nQuery = 1 /\ nDownload = 1 /\ nRename = 0 /\ nRename' = 1
           /\ pc = "replaceSelf" /\ ret = "none"
           /\ dlURL = assetURL
           /\ fs[tmpPath] = Body(assetURL) /\ fs[tmpPath] = "new")
     /\ ret # "none" => UNCHANGED <<nQuery, nDownload, nRename, fs, ret>>
    ]_vars

\* C11 witness: query, gate, download and rename each ran once, in a run
\* whose staging file had to be truncated first
C11_Witness ==
  /\ nQuery = 1 /\ nDownload = 1 /\ nRename = 1
  /\ RestartRequested
  /\ dlURL = assetURL
  /\ fs0[stagingPath(exePath)] = "stale"
  /\ fs[exePath] = "new" /\ fs[tmpPath] = "absent"

\* C12: in every run that reaches Downloading, the staging path is in the
\* directory of the live executable and is a different path, whatever the
\* location and file name of the running executable; so creating or
\* truncating the staging file never touches the live binary.
C12_StagingPathDistinct ==
  /\ tmpPath # NoPath =>
       (Dir(tmpPath) = Dir(exePath) /\ tmpPath # exePath)
  /\ pc \in {"get", "copy", "replaceSelf"} => fs[exePath] = fs0[exePath]

\* C13: the two upgrade gates agree: for every pair (local, remote),
\* isNewer(local, remote) is true exactly when the ParseVersion/Compare gate
\* proceeds to Downloading, i.e. both strings parse, Compare(remote, local)
\* is greater than 0 and remote has no prerelease.
C13_GatesAgree ==
  pc = "decided" =>
    (newer <=> ~noNewerRelease(gateCmp, remoteVersion))

\* the prerelease tail ParseVersion hands to parsePreRelease for v (the text
\* after the first dash of v without its leading v), as a sequence of length
\* 0 or 1
TailOf(v) ==
  LET parts == SplitN(CutPrefix(v, <<"v">>).after, "-", 2)
  IN IF CutPrefix(v, <<"v">>).found /\ Len(parts) = 2 THEN <<parts[2]>>
     ELSE <<>>

\* parsePreRelease and ParseVersion give one value for v whatever the
\* iteration order, and that value is vs
OrderIndependent(v, vs) ==
  LET tail == TailOf(v)
      first == CHOOSE o \in MapOrders : TRUE
  IN /\ \A o \in MapOrders : ParseVersion(v, o) = vs
     /\ tail # <<>> =>
          /\ Cardinality({k \in DOMAIN prereleaseTypeMap :
                            CutPrefix(tail[1], k).found}) <= 1
          /\ \A o \in MapOrders :
               parsePreRelease(tail[1], o) = parsePreRelease(tail[1], first)

\* C14: parsePreRelease is deterministic: for every prerelease tail its
\* result is the same for every iteration order of the channel lookup map,
\* because at most one of the literals alpha, beta, rc is a prefix of any
\* given tail (no literal is a prefix of another); hence the value
\* ParseVersion returned is the value it returns under every order.
C14_Deterministic ==
  /\ \A k1, k2 \in DOMAIN prereleaseTypeMap :
       k1 # k2 => ~CutPrefix(k1, k2).found
  /\ (tpc \in {"parse2", "panic"} /\ parsed2 = NoVersion) =>
       OrderIndependent(ver1, parsed1)
  /\ (tpc \in {"compare", "panic"} /\ parsed2 # NoVersion) =>
       OrderIndependent(ver2, parsed2)

\* a tail that starts with a channel literal was parsed, after the lookup
\* visited the literals in some order
C14_Witness ==
  /\ tpc = "parse2"
  /\ TailOf(ver1) # <<>>
  /\ parsed1.Parsed /\ parsed1.Pre # <<>>
  /\ parsed1.Pre[1].t = PrereleaseRC

====
